---- MODULE Spec2Model ----
(***************************************************************************)
(* Model of ApiHandler (src/src/handler/api.ts): the router `handle`, the  *)
(* token check and the three workflow operations RequestMachine,           *)
(* GetMachine and StartMachine, over a Machine Store, a State Cache, a     *)
(* Device Gateway and an Identity Gateway.                                 *)
(*                                                                         *)
(* Every collaborator call of a handler is a call site named after its     *)
(* source line ("status64" is db.updateMachineStatus at api.ts:64).  Every *)
(* call may complete or throw, so a handler maps a Store and a Cache to    *)
(* the set of outcomes it can end in: one for each way its calls can       *)
(* fault.  Spec handles one request at a time.  Interleaved runs the same   *)
(* handlers as tasks whose collaborator calls interleave.                  *)
(***************************************************************************)
EXTENDS Integers, Sequences, FiniteSets, TLC

VARIABLES store, cache, observed, last, task, jobWriter, started

vars == <<store, cache, observed, last, task, jobWriter, started>>

(***************************************************************************)
(* Bounds of the model.                                                    *)
(***************************************************************************)
NumJobs == 2
NumLocations == 2

(***************************************************************************)
(* Data model: MachineStateDocument, MachineStatus, HttpResponseCode.      *)
(***************************************************************************)
AVAILABLE == "AVAILABLE"
AWAITING_DROPOFF == "AWAITING_DROPOFF"
RUNNING == "RUNNING"
ERROR == "ERROR"
MachineStatus == {AVAILABLE, AWAITING_DROPOFF, RUNNING, ERROR}

OK == "OK"
NOT_FOUND == "NOT_FOUND"
BAD_REQUEST == "BAD_REQUEST"
UNAUTHORIZED == "UNAUTHORIZED"
INTERNAL_SERVER_ERROR == "INTERNAL_SERVER_ERROR"
HARDWARE_ERROR == "HARDWARE_ERROR"

\* `undefined`: an optional value is <<>> or a one-element sequence <<v>>.
undefined == <<>>

\* The machines the Store holds, in the order the Store lists them: two
\* machines, both at location 1; every other location has none.
StoreOrder == <<1, 2>>
StoreIds == {StoreOrder[k] : k \in 1 .. Len(StoreOrder)}
\* An id that matches the path pattern and that the Store does not hold.
UnknownId == Len(StoreOrder) + 1
\* The path segment "request" read as a machine id by the GET and start patterns.
RequestWordId == 0
PathIds == {RequestWordId} \cup StoreIds \cup {UnknownId}

LocationIds == 1 .. NumLocations
JobIds == 1 .. NumJobs
\* jobId of a machine that was never reserved.
NoJob == 0

LocationOf(m) == 1

\* The logical tasks that handle requests side by side when invocations
\* interleave.
Procs == {1, 2}

(***************************************************************************)
(* Machine Store (MachineStateTable), State Cache (DataCache), Identity    *)
(* Gateway (IdentityProviderClient): the collaborators' contracts.         *)
(***************************************************************************)
RECURSIVE SelectAt(_, _, _)
SelectAt(db, locationId, k) ==
    IF k > Len(StoreOrder) THEN <<>>
    ELSE (IF db[StoreOrder[k]].locationId = locationId
          THEN <<db[StoreOrder[k]]>> ELSE <<>>)
         \o SelectAt(db, locationId, k + 1)

listMachinesAtLocation(db, locationId) == SelectAt(db, locationId, 1)

getMachine(db, machineId) ==
    IF machineId \in DOMAIN db THEN <<db[machineId]>> ELSE undefined

updateMachineStatus(db, machineId, status) ==
    IF machineId \in DOMAIN db THEN [db EXCEPT ![machineId].status = status] ELSE db

updateMachineJobId(db, machineId, jobId) ==
    IF machineId \in DOMAIN db THEN [db EXCEPT ![machineId].jobId = jobId] ELSE db

cacheGet(ch, machineId) == ch[machineId]

cachePut(ch, machineId, machine) == [ch EXCEPT ![machineId] = machine]

Tokens == {"valid", "invalid"}
validateToken(token) == token = "valid"

\* Device Gateway: a start-cycle command that fails with a hardware fault
\* leaves the machine in status ERROR in the Store; a transient failure
\* leaves the Store alone.
startCycleFailure(db, machineId, hardware) ==
    IF hardware THEN updateMachineStatus(db, machineId, ERROR) ELSE db

(***************************************************************************)
(* Call sites.                                                             *)
(***************************************************************************)
StoreSites == {"list51", "status64", "job67", "get70", "get113", "get147",
               "status168", "get171", "get190", "status193"}
CacheSites == {"put74", "cget103", "put123", "put175", "put195"}
DeviceSites == {"start165"}

\* The most recent record value the workflow read from or wrote to the Store
\* for each id: the records of a listing, the record of a point read, the
\* record as it stands after a field update.
Observe(ob, db, ids) ==
    [i \in DOMAIN ob |-> IF i \in ids THEN getMachine(db, i) ELSE ob[i]]

RECURSIVE IdsOf(_)
IdsOf(machines) ==
    IF machines = <<>> THEN {} ELSE {Head(machines).machineId} \cup IdsOf(Tail(machines))

\* One outcome of a handler run: the Store and Cache it leaves, its response,
\* the call sites it called in order and the call sites that threw.
Outcome(db, ch, ob, kind, statusCode, machine, calls, faults) ==
    [db |-> db, cache |-> ch, obs |-> ob,
     resp |-> [kind |-> kind, statusCode |-> statusCode, machine |-> machine],
     calls |-> calls, faults |-> faults]

Return(db, ch, ob, statusCode, machine, calls, faults) ==
    Outcome(db, ch, ob, "return", statusCode, machine, calls, faults)

(***************************************************************************)
(* handleRequestMachine (api.ts:49-92).                                    *)
(***************************************************************************)
\* machines.find(m => m.status === AVAILABLE): the index of the first record
\* in the listing whose status is AVAILABLE, 0 when there is none.
RECURSIVE findFrom(_, _)
findFrom(machines, i) ==
    IF i > Len(machines) THEN 0
    ELSE IF machines[i].status = AVAILABLE THEN i
    ELSE findFrom(machines, i + 1)

\* Variant: find keeps the last record that is AVAILABLE, not the first.
findAvailableLast(machines) ==
    LET fits == {k \in 1 .. Len(machines) : machines[k].status = AVAILABLE} IN
    IF fits = {} THEN 0 ELSE CHOOSE k \in fits : \A j \in fits : j <= k

\* Variant: find takes a machine that is reserved already for an available one.
findAvailableOrReserved(machines) ==
    LET fits == {k \in 1 .. Len(machines) :
                    machines[k].status \in {AVAILABLE, AWAITING_DROPOFF}} IN
    IF fits = {} THEN 0 ELSE CHOOSE k \in fits : \A j \in fits : k <= j

\* Variant: the predicate of find takes every machine that is not RUNNING
\* for an available one.
findAvailableNotRunning(machines) ==
    LET fits == {k \in 1 .. Len(machines) : machines[k].status # RUNNING} IN
    IF fits = {} THEN 0 ELSE CHOOSE k \in fits : \A j \in fits : k <= j

findAvailable(machines) == findFrom(machines, 1)

\* Variant: the status update writes the status the machine was found in.
ReservedStatusKept == AVAILABLE

\* The status a reservation writes (api.ts:64).
ReservedStatus == AWAITING_DROPOFF

\* Variant: the job id is left as it was found.
ReservedJobIdUnset(request) == NoJob

\* Variant: every reservation is written for the first job.
ReservedJobIdFirst(request) == CHOOSE j \in JobIds : \A k \in JobIds : j <= k

\* The job id a reservation writes (api.ts:67).
ReservedJobId(request) == request.jobId

\* Variant: the catch block lets the fault out of the operation.
requestCatchRethrow(db, ch, ob, calls, site) ==
    Outcome(db, ch, ob, "throw", INTERNAL_SERVER_ERROR, undefined, calls, <<site>>)

\* catch (error): every fault of the try block ends in the same response
\* (api.ts:86-91).
requestCatch(db, ch, ob, calls, site) ==
    Return(db, ch, ob, INTERNAL_SERVER_ERROR, undefined, calls, <<site>>)

\* api.ts:70-85: the re-read, the cache write and the response.
requestReread(db, ch, ob, id, calls) ==
    LET c4 == Append(calls, "get70")
        c5 == Append(c4, "put74")
        updatedMachine == getMachine(db, id)
    IN
    {requestCatch(db, ch, ob, c4, "get70")}
    \cup
    (IF updatedMachine = undefined
     THEN {Return(db, ch, ob, INTERNAL_SERVER_ERROR, undefined, c4, <<>>)}
     ELSE {requestCatch(db, ch, ob, c5, "put74"),
           Return(db, cachePut(ch, id, updatedMachine), ob, OK, updatedMachine, c5, <<>>)})

\* api.ts:63-67: the two field updates of the selected machine.
requestReserve(db, ch, ob, request, id) ==
    LET c2 == <<"list51", "status64">>
        c3 == Append(c2, "job67")
        db1 == updateMachineStatus(db, id, ReservedStatus)
        ob1 == Observe(ob, db1, {id})
        db2 == updateMachineJobId(db1, id, ReservedJobId(request))
        ob2 == Observe(ob1, db2, {id})
    IN
    {requestCatch(db, ch, ob, c2, "status64"),
     requestCatch(db1, ch, ob1, c3, "job67")}
    \cup requestReread(db2, ch, ob2, id, c3)

handleRequestMachine(db, ch, ob, request) ==
    LET machines == listMachinesAtLocation(db, request.locationId)
        ob1 == Observe(ob, db, IdsOf(machines))
        i == findAvailable(machines)
    IN
    {requestCatch(db, ch, ob, <<"list51">>, "list51")}
    \cup
    (IF i = 0
     THEN {Return(db, ch, ob1, NOT_FOUND, undefined, <<"list51">>, <<>>)}
     ELSE requestReserve(db, ch, ob1, request, machines[i].machineId))

(***************************************************************************)
(* handleGetMachine (api.ts:100-135).                                      *)
(***************************************************************************)
\* Variant: the test never sees a cached record.
cacheHitNever(cachedMachine) == FALSE

\* Variant: the test takes an absent entry for a record too.
cacheHitAlways(cachedMachine) == TRUE

\* if (cachedMachine): a cached record short-circuits the Store read (api.ts:105).
cacheHit(cachedMachine) == cachedMachine # undefined

\* catch (error) (api.ts:129-134).
getCatch(db, ch, ob, calls, site) ==
    Return(db, ch, ob, INTERNAL_SERVER_ERROR, undefined, calls, <<site>>)

\* api.ts:112-128: the cache miss.
getFromStore(db, ch, ob, request) ==
    LET c2 == <<"cget103", "get113">>
        c3 == Append(c2, "put123")
        machine == getMachine(db, request.machineId)
        ob1 == Observe(ob, db, {request.machineId})
    IN
    {getCatch(db, ch, ob, c2, "get113")}
    \cup
    (IF machine = undefined
     THEN {Return(db, ch, ob1, NOT_FOUND, undefined, c2, <<>>)}
     ELSE {getCatch(db, ch, ob1, c3, "put123"),
           Return(db, cachePut(ch, request.machineId, machine), ob1, OK, machine, c3, <<>>)})

handleGetMachine(db, ch, ob, request) ==
    LET cachedMachine == cacheGet(ch, request.machineId) IN
    {getCatch(db, ch, ob, <<"cget103">>, "cget103")}
    \cup
    (IF cacheHit(cachedMachine)
     THEN {Return(db, ch, ob, OK, cachedMachine, <<"cget103">>, <<>>)}
     ELSE getFromStore(db, ch, ob, request))

(***************************************************************************)
(* handleStartMachine (api.ts:144-210).                                    *)
(***************************************************************************)
\* Variant: only a RUNNING machine is rejected.
startRejectedIfRunning(machine) == machine.status = RUNNING

\* Variant: only an AVAILABLE machine is rejected.
startRejectedIfAvailable(machine) == machine.status = AVAILABLE

\* Variant: no machine is rejected.
startRejectedNever(machine) == FALSE

\* machine.status !== AWAITING_DROPOFF rejects the start (api.ts:157).
startRejected(machine) == machine.status # AWAITING_DROPOFF

\* Variant: the status update writes the status the machine already has.
StartedStatusKept == AWAITING_DROPOFF

\* The status a successful start writes (api.ts:168).
StartedStatus == RUNNING

\* Variant: the confirmation takes any record for a hardware fault.
hardwareConfirmedAnyRecord(machine) == machine # undefined

\* Variant: the confirmation compares with the wrong status.
hardwareConfirmedIfRunning(machine) == machine # undefined /\ machine[1].status = RUNNING

\* machine && machine.status === ERROR: the failure is a confirmed hardware
\* fault (api.ts:191).
hardwareConfirmed(machine) == machine # undefined /\ machine[1].status = ERROR

\* api.ts:192-199: the Store re-asserts ERROR, the cache takes the record read.
startConfirmed(db, ch, ob, request, machine, calls, faults) ==
    LET c2 == Append(calls, "status193")
        c3 == Append(c2, "put195")
        db1 == updateMachineStatus(db, request.machineId, ERROR)
        ob1 == Observe(ob, db1, {request.machineId})
    IN
    {Return(db, ch, ob, INTERNAL_SERVER_ERROR, undefined, c2, Append(faults, "status193")),
     Return(db1, ch, ob1, INTERNAL_SERVER_ERROR, undefined, c3, Append(faults, "put195")),
     Return(db1, cachePut(ch, request.machineId, machine), ob1, HARDWARE_ERROR,
            machine, c3, faults)}

\* The catch block (api.ts:187-209), entered with the calls and the fault of
\* the try block.
startCatch(db, ch, ob, request, calls, faults) ==
    LET c1 == Append(calls, "get190")
        machine == getMachine(db, request.machineId)
        ob1 == Observe(ob, db, {request.machineId})
    IN
    {Return(db, ch, ob, INTERNAL_SERVER_ERROR, undefined, c1, Append(faults, "get190"))}
    \cup
    (IF hardwareConfirmed(machine)
     THEN startConfirmed(db, ch, ob1, request, machine, c1, faults)
     ELSE {Return(db, ch, ob1, INTERNAL_SERVER_ERROR, undefined, c1, faults)})

\* api.ts:167-186: the status update, the re-read, the cache write.
startRunning(db, ch, ob, request, calls) ==
    LET c3 == Append(calls, "status168")
        c4 == Append(c3, "get171")
        c5 == Append(c4, "put175")
        db1 == updateMachineStatus(db, request.machineId, StartedStatus)
        ob1 == Observe(ob, db1, {request.machineId})
        updatedMachine == getMachine(db1, request.machineId)
    IN
    startCatch(db, ch, ob, request, c3, <<"status168">>)
    \cup startCatch(db1, ch, ob1, request, c4, <<"get171">>)
    \cup
    (IF updatedMachine = undefined
     THEN {Return(db1, ch, ob1, INTERNAL_SERVER_ERROR, undefined, c4, <<>>)}
     ELSE startCatch(db1, ch, ob1, request, c5, <<"put175">>)
          \cup {Return(db1, cachePut(ch, request.machineId, updatedMachine), ob1, OK,
                       updatedMachine, c5, <<>>)})

\* api.ts:164-165: the start-cycle command, which succeeds, fails leaving the
\* Store alone, or fails with a hardware fault.
startCommand(db, ch, ob, request) ==
    LET c2 == <<"get147", "start165">> IN
    startCatch(startCycleFailure(db, request.machineId, FALSE), ch, ob, request,
               c2, <<"start165">>)
    \cup startCatch(startCycleFailure(db, request.machineId, TRUE), ch, ob, request,
                    c2, <<"start165">>)
    \cup startRunning(db, ch, ob, request, c2)

handleStartMachine(db, ch, ob, request) ==
    LET machine == getMachine(db, request.machineId)
        ob1 == Observe(ob, db, {request.machineId})
    IN
    startCatch(db, ch, ob, request, <<"get147">>, <<"get147">>)
    \cup
    (IF machine = undefined
     THEN {Return(db, ch, ob1, NOT_FOUND, undefined, <<"get147">>, <<>>)}
     ELSE IF startRejected(machine[1])
     THEN {Return(db, ch, ob1, BAD_REQUEST, machine, <<"get147">>, <<>>)}
     ELSE startCommand(db, ch, ob1, request))

(***************************************************************************)
(* checkToken (api.ts:31-38) and the router handle (api.ts:218-240).       *)
(***************************************************************************)
Methods == {"GET", "POST", "PUT"}

\* Paths: "/machine/request", "/machine/<id>", "/machine/<id>/start" and a
\* path that matches no pattern.  "request" is itself a word the id pattern
\* [a-zA-Z0-9-]+ matches.
RequestPath == [pat |-> "request", id |-> RequestWordId]
Paths == {RequestPath}
         \cup [pat : {"id", "start"}, id : StoreIds \cup {UnknownId}]
         \cup {[pat |-> "other", id |-> RequestWordId]}

\* Variant: the result of validateToken is ignored.
tokenRejectedNever(token) == FALSE

\* this.idp.validateToken(token) is false: checkToken throws (api.ts:32).
tokenRejected(token) == ~validateToken(token)

\* request.path.match(/^\/machine\/([a-zA-Z0-9-]+)$/) (api.ts:225)
getMachineMatch(path) ==
    IF path.pat \in {"request", "id"} THEN <<path.id>> ELSE undefined

\* request.path.match(/^\/machine\/([a-zA-Z0-9-]+)\/start$/) (api.ts:232)
startMachineMatch(path) ==
    IF path.pat = "start" THEN <<path.id>> ELSE undefined

\* The handler a request with a valid token is routed to (api.ts:221-239).
Route(request) ==
    IF request.method = "POST" /\ request.path = RequestPath THEN "request"
    ELSE IF request.method = "GET" /\ getMachineMatch(request.path) # undefined THEN "get"
    ELSE IF request.method = "POST" /\ startMachineMatch(request.path) # undefined THEN "start"
    ELSE "unmatched"

handle(db, ch, ob, request) ==
    IF tokenRejected(request.token)
    THEN {Outcome(db, ch, ob, "throw", UNAUTHORIZED, undefined, <<>>, <<>>)}
    ELSE IF Route(request) = "request"
    THEN handleRequestMachine(db, ch, ob, request)
    ELSE IF Route(request) = "get"
    THEN handleGetMachine(db, ch, ob,
             ("machineId" :> getMachineMatch(request.path)[1]) @@ request)
    ELSE IF Route(request) = "start"
    THEN handleStartMachine(db, ch, ob,
             ("machineId" :> startMachineMatch(request.path)[1]) @@ request)
    ELSE {Return(db, ch, ob, INTERNAL_SERVER_ERROR, undefined, <<>>, <<>>)}

(***************************************************************************)
(* The state machine: requests are handled one after another, each to      *)
(* completion.  `last` records the handler the last request was routed to, *)
(* its response code, the call sites it called in order and the call sites *)
(* that threw.  `observed` is kept for the ids that have a cache entry.    *)
(***************************************************************************)
\* locationId and jobId of a request whose body carries none.
NoBody == 0

Request(token, method, path, locationId, jobId) ==
    [token |-> token, method |-> method, path |-> path,
     locationId |-> locationId, jobId |-> jobId]

BodylessRequests ==
    {Request(t, m, p, NoBody, NoBody) : t \in Tokens, m \in Methods, p \in Paths}

ReservationRequests ==
    {Request(t, "POST", RequestPath, l, j) : t \in Tokens, l \in LocationIds, j \in JobIds}

Requests == BodylessRequests \cup ReservationRequests

\* A task that handles no request: its last invocation, if any, has returned.
Idle == [op |-> "idle", pc |-> "done", id |-> RequestWordId, loc |-> NoBody,
         job |-> NoBody, mach |-> undefined, code |-> "none"]

Init ==
    /\ store = [m \in StoreIds |->
                   [machineId |-> m, locationId |-> LocationOf(m),
                    status |-> AVAILABLE, jobId |-> NoJob]]
    /\ cache = [i \in PathIds |-> undefined]
    /\ observed = [i \in PathIds |-> undefined]
    /\ last = [route |-> "init", kind |-> "return", statusCode |-> OK,
               calls |-> <<>>, faults |-> <<>>]
    /\ task = [p \in Procs |-> Idle]
    /\ jobWriter = [m \in StoreIds |-> 0]
    /\ started = {}

Tracked(ob, ch) ==
    [i \in PathIds |-> IF ch[i] = undefined THEN undefined ELSE ob[i]]

Handle(route, request) ==
    \E out \in handle(store, cache, observed, request) :
        /\ store' = out.db
        /\ cache' = out.cache
        /\ observed' = Tracked(out.obs, out.cache)
        /\ last' = [route |-> route, kind |-> out.resp.kind,
                    statusCode |-> out.resp.statusCode,
                    calls |-> out.calls, faults |-> out.faults]
        /\ UNCHANGED <<task, jobWriter, started>>

Unauthorized ==
    \E request \in Requests :
        /\ ~validateToken(request.token)
        /\ Handle("unauthorized", request)

RequestMachine ==
    \E request \in Requests :
        /\ validateToken(request.token)
        /\ Route(request) = "request"
        /\ Handle("request", request)

GetMachine ==
    \E request \in Requests :
        /\ validateToken(request.token)
        /\ Route(request) = "get"
        /\ Handle("get", request)

StartMachine ==
    \E request \in Requests :
        /\ validateToken(request.token)
        /\ Route(request) = "start"
        /\ Handle("start", request)

Unmatched ==
    \E request \in Requests :
        /\ validateToken(request.token)
        /\ Route(request) = "unmatched"
        /\ Handle("unmatched", request)

Next ==
    \/ Unauthorized
    \/ RequestMachine
    \/ GetMachine
    \/ StartMachine
    \/ Unmatched

Spec == Init /\ [][Next]_vars

(***************************************************************************)
(* Interleaved invocations.  Each request is handled by one task, which    *)
(* issues the calls of its handler in program order; the calls of          *)
(* different tasks interleave, one Store, Cache or Device Gateway call at  *)
(* a time.  task[p] is the invocation task p is in: the operation, the     *)
(* call site it is about to issue (pc), the machine id of the path or the  *)
(* one find selected, the record it holds in a local, and its result code  *)
(* once it has returned.  jobWriter[m] is the task that wrote the jobId of *)
(* m last, started the machines a start-cycle command succeeded for.       *)
(***************************************************************************)
\* Each task reserves for a job of its own.
JobOf(p) == p

InFlight(p) == [machineId |-> task[p].id, locationId |-> task[p].loc, jobId |-> task[p].job]

Goto(p, site, id, machine) ==
    task' = [task EXCEPT ![p].pc = site, ![p].id = id, ![p].mach = machine]

\* The invocation returns: the task keeps the operation and the result code,
\* and of a reservation that returned OK the machine and the job.
Returns(p, statusCode) ==
    task' = [task EXCEPT ![p] =
                IF task[p].op = "request" /\ statusCode = OK
                THEN [task[p] EXCEPT !.pc = "done", !.loc = NoBody, !.mach = undefined,
                                     !.code = statusCode]
                ELSE [Idle EXCEPT !.op = task[p].op, !.code = statusCode]]

\* A task takes the next request: handle (api.ts:218-240) routes it.
Begin(p) ==
    /\ task[p].pc = "done"
    /\ \/ \E l \in LocationIds :
            task' = [task EXCEPT ![p] = [op |-> "request", pc |-> "list51",
                        id |-> RequestWordId, loc |-> l, job |-> JobOf(p),
                        mach |-> undefined, code |-> "none"]]
       \/ \E i \in StoreIds, o \in {"get", "start"} :
            task' = [task EXCEPT ![p] = [op |-> o,
                        pc |-> IF o = "get" THEN "cget103" ELSE "get147",
                        id |-> i, loc |-> NoBody, job |-> NoBody,
                        mach |-> undefined, code |-> "none"]]
    /\ UNCHANGED <<store, cache, jobWriter, started, observed, last>>

\* api.ts:51-61
List51(p) ==
    /\ task[p].pc = "list51"
    /\ LET machines == listMachinesAtLocation(store, task[p].loc)
           i == findAvailable(machines)
       IN IF i = 0 THEN Returns(p, NOT_FOUND)
          ELSE Goto(p, "status64", machines[i].machineId, undefined)
    /\ UNCHANGED <<store, cache, jobWriter, started, observed, last>>

\* api.ts:64
Status64(p) ==
    /\ task[p].pc = "status64"
    /\ store' = updateMachineStatus(store, task[p].id, ReservedStatus)
    /\ Goto(p, "job67", task[p].id, undefined)
    /\ UNCHANGED <<cache, jobWriter, started, observed, last>>

\* api.ts:67
Job67(p) ==
    /\ task[p].pc = "job67"
    /\ store' = updateMachineJobId(store, task[p].id, ReservedJobId(InFlight(p)))
    /\ jobWriter' = [jobWriter EXCEPT ![task[p].id] = p]
    /\ Goto(p, "get70", task[p].id, undefined)
    /\ UNCHANGED <<cache, started, observed, last>>

\* api.ts:70-72, 81-85
Get70(p) ==
    /\ task[p].pc = "get70"
    /\ LET updatedMachine == getMachine(store, task[p].id) IN
       IF updatedMachine = undefined THEN Returns(p, INTERNAL_SERVER_ERROR)
       ELSE Goto(p, "put74", task[p].id, updatedMachine)
    /\ UNCHANGED <<store, cache, jobWriter, started, observed, last>>

\* api.ts:74-79
Put74(p) ==
    /\ task[p].pc = "put74"
    /\ cache' = cachePut(cache, task[p].id, task[p].mach)
    /\ Returns(p, OK)
    /\ UNCHANGED <<store, jobWriter, started, observed, last>>

\* api.ts:103-110
CacheGet103(p) ==
    /\ task[p].pc = "cget103"
    /\ IF cacheHit(cacheGet(cache, task[p].id)) THEN Returns(p, OK)
       ELSE Goto(p, "get113", task[p].id, undefined)
    /\ UNCHANGED <<store, cache, jobWriter, started, observed, last>>

\* api.ts:113-120
Get113(p) ==
    /\ task[p].pc = "get113"
    /\ LET machine == getMachine(store, task[p].id) IN
       IF machine = undefined THEN Returns(p, NOT_FOUND)
       ELSE Goto(p, "put123", task[p].id, machine)
    /\ UNCHANGED <<store, cache, jobWriter, started, observed, last>>

\* api.ts:123-128
Put123(p) ==
    /\ task[p].pc = "put123"
    /\ cache' = cachePut(cache, task[p].id, task[p].mach)
    /\ Returns(p, OK)
    /\ UNCHANGED <<store, jobWriter, started, observed, last>>

\* api.ts:147-162
Get147(p) ==
    /\ task[p].pc = "get147"
    /\ LET machine == getMachine(store, task[p].id) IN
       IF machine = undefined THEN Returns(p, NOT_FOUND)
       ELSE IF startRejected(machine[1]) THEN Returns(p, BAD_REQUEST)
       ELSE Goto(p, "start165", task[p].id, undefined)
    /\ UNCHANGED <<store, cache, jobWriter, started, observed, last>>

\* api.ts:165: the command succeeds, or it fails and control passes to the
\* catch block (api.ts:187).
Start165(p) ==
    /\ task[p].pc = "start165"
    /\ \/ /\ started' = started \cup {task[p].id}
          /\ Goto(p, "status168", task[p].id, undefined)
          /\ UNCHANGED store
       \/ \E hardware \in BOOLEAN :
          /\ store' = startCycleFailure(store, task[p].id, hardware)
          /\ Goto(p, "get190", task[p].id, undefined)
          /\ UNCHANGED started
    /\ UNCHANGED <<cache, jobWriter, observed, last>>

\* api.ts:168
Status168(p) ==
    /\ task[p].pc = "status168"
    /\ store' = updateMachineStatus(store, task[p].id, StartedStatus)
    /\ Goto(p, "get171", task[p].id, undefined)
    /\ UNCHANGED <<cache, jobWriter, started, observed, last>>

\* api.ts:171-173, 182-186
Get171(p) ==
    /\ task[p].pc = "get171"
    /\ LET updatedMachine == getMachine(store, task[p].id) IN
       IF updatedMachine = undefined THEN Returns(p, INTERNAL_SERVER_ERROR)
       ELSE Goto(p, "put175", task[p].id, updatedMachine)
    /\ UNCHANGED <<store, cache, jobWriter, started, observed, last>>

\* api.ts:175-180
Put175(p) ==
    /\ task[p].pc = "put175"
    /\ cache' = cachePut(cache, task[p].id, task[p].mach)
    /\ Returns(p, OK)
    /\ UNCHANGED <<store, jobWriter, started, observed, last>>

\* api.ts:190-191, 205-208
Get190(p) ==
    /\ task[p].pc = "get190"
    /\ LET machine == getMachine(store, task[p].id) IN
       IF hardwareConfirmed(machine) THEN Goto(p, "status193", task[p].id, machine)
       ELSE Returns(p, INTERNAL_SERVER_ERROR)
    /\ UNCHANGED <<store, cache, jobWriter, started, observed, last>>

\* api.ts:193
Status193(p) ==
    /\ task[p].pc = "status193"
    /\ store' = updateMachineStatus(store, task[p].id, ERROR)
    /\ Goto(p, "put195", task[p].id, task[p].mach)
    /\ UNCHANGED <<cache, jobWriter, started, observed, last>>

\* api.ts:195-200
Put195(p) ==
    /\ task[p].pc = "put195"
    /\ cache' = cachePut(cache, task[p].id, task[p].mach)
    /\ Returns(p, HARDWARE_ERROR)
    /\ UNCHANGED <<store, jobWriter, started, observed, last>>

InterleavedNext ==
    \E p \in Procs :
        \/ Begin(p)
        \/ List51(p) \/ Status64(p) \/ Job67(p) \/ Get70(p) \/ Put74(p)
        \/ CacheGet103(p) \/ Get113(p) \/ Put123(p)
        \/ Get147(p) \/ Start165(p) \/ Status168(p) \/ Get171(p) \/ Put175(p)
        \/ Get190(p) \/ Status193(p) \/ Put195(p)

Interleaved == Init /\ [][InterleavedNext]_vars

(***************************************************************************)
(* Vocabulary of the properties.                                           *)
(***************************************************************************)
\* The requests with a valid token that the router hands to `route`.
Routed(route) == {r \in Requests : validateToken(r.token) /\ Route(r) = route}

\* The outcomes the handler can end in for `request` in the current state.
Outcomes(request) == handle(store, cache, observed, request)

\* The outcomes in which every collaborator call completed.
Completed(request) == {out \in Outcomes(request) : out.faults = <<>>}

HasAvailable(db, locationId) ==
    \E m \in StoreIds : db[m].locationId = locationId /\ db[m].status = AVAILABLE

Called(out, sites) == \E k \in 1 .. Len(out.calls) : out.calls[k] \in sites

\* The transitions of a machine's status the workflow allows.
LegalTransitions ==
    {<<AVAILABLE, AWAITING_DROPOFF>>, <<AWAITING_DROPOFF, RUNNING>>,
     <<AWAITING_DROPOFF, ERROR>>}

(***************************************************************************)
(* C1: whatever request is handled next and whichever of its Store, Cache  *)
(* and Device Gateway calls fault, every machine whose Store status        *)
(* differs afterwards went AVAILABLE -> AWAITING_DROPOFF, AWAITING_DROPOFF *)
(* -> RUNNING or AWAITING_DROPOFF -> ERROR.                                *)
(***************************************************************************)
StatusTransitionsLegal ==
    \A request \in Requests : \A out \in Outcomes(request) : \A m \in StoreIds :
        out.db[m].status # store[m].status
            => <<store[m].status, out.db[m].status>> \in LegalTransitions

\* All three transitions have been taken: one machine is RUNNING, the other
\* in ERROR, so both were reserved first.
StatusTransitionsTaken ==
    /\ \E m \in StoreIds : store[m].status = RUNNING /\ store[m].jobId \in JobIds
    /\ \E m \in StoreIds : store[m].status = ERROR /\ store[m].jobId \in JobIds

(***************************************************************************)
(* C2: in every reachable state a cache entry that is present equals the   *)
(* most recent record value the workflow wrote to or read from the Store   *)
(* for that id.                                                            *)
(***************************************************************************)
CacheEqualsMostRecent ==
    \A i \in PathIds : cache[i] # undefined => cache[i] = observed[i]

(***************************************************************************)
(* C3: a RequestMachine for a location with an AVAILABLE machine, all of   *)
(* whose calls complete, returns OK with a record of status                *)
(* AWAITING_DROPOFF and the requested jobId; the Store holds that record   *)
(* and the Cache entry of the record's machine id is that record.          *)
(***************************************************************************)
RequestReserves ==
    \A request \in Routed("request") : \A out \in Completed(request) :
        HasAvailable(store, request.locationId)
            => /\ out.resp.statusCode = OK
               /\ out.resp.machine # undefined
               /\ LET machine == out.resp.machine[1] IN
                  /\ machine.status = AWAITING_DROPOFF
                  /\ machine.jobId = request.jobId
                  /\ machine.locationId = request.locationId
                  /\ machine.machineId \in StoreIds
                  /\ out.db[machine.machineId] = machine
                  /\ out.cache[machine.machineId] = <<machine>>

\* A reservation has just returned OK and its record is in Store and Cache.
RequestReserved ==
    /\ last.route = "request"
    /\ last.statusCode = OK
    /\ last.faults = <<>>
    /\ \E m \in StoreIds :
        /\ store[m].status = AWAITING_DROPOFF
        /\ store[m].jobId \in JobIds
        /\ cache[m] = <<store[m]>>

(***************************************************************************)
(* C4: a RequestMachine for a location with no AVAILABLE machine (a        *)
(* location without machines too) leaves every Store record and every      *)
(* Cache entry as they were and carries no machine; when its listing call  *)
(* completes it returns NOT_FOUND.                                         *)
(***************************************************************************)
RequestNotFound ==
    \A request \in Routed("request") : \A out \in Outcomes(request) :
        ~HasAvailable(store, request.locationId)
            => /\ out.db = store
               /\ out.cache = cache
               /\ out.resp.machine = undefined
               /\ out.faults = <<>> => out.resp.statusCode = NOT_FOUND

\* A reservation has just returned NOT_FOUND while no machine is AVAILABLE
\* at any location: location 1 is used up, location 2 never had a machine.
RequestExhausted ==
    /\ last.route = "request"
    /\ last.statusCode = NOT_FOUND
    /\ \A l \in LocationIds : ~HasAvailable(store, l)

(***************************************************************************)
(* C5: a StartMachine on a machine the Store holds with a status other     *)
(* than AWAITING_DROPOFF never issues the start-cycle command and never    *)
(* changes the Store; when its Store read completes it returns BAD_REQUEST *)
(* carrying the record as stored and leaves the Cache as it was.  A start  *)
(* repeated after a successful start is such a call.                       *)
(***************************************************************************)
NonAwaitingStartRejected ==
    \A request \in Routed("start") :
        LET id == request.path.id IN
        (id \in StoreIds /\ store[id].status # AWAITING_DROPOFF)
            => /\ \A out \in Outcomes(request) :
                    /\ ~Called(out, DeviceSites)
                    /\ out.db = store
               /\ \A out \in Completed(request) :
                    /\ out.resp.statusCode = BAD_REQUEST
                    /\ out.resp.machine = <<store[id]>>
                    /\ out.cache = cache

\* A start has just been rejected with BAD_REQUEST while every machine that
\* left AVAILABLE is RUNNING, and one is: the start repeats a successful one.
StartRepeated ==
    /\ last.route = "start"
    /\ last.statusCode = BAD_REQUEST
    /\ \E m \in StoreIds : store[m].status = RUNNING
    /\ \A m \in StoreIds : store[m].status \in {AVAILABLE, RUNNING}

(***************************************************************************)
(* C6: a StartMachine on a machine in AWAITING_DROPOFF whose start-cycle   *)
(* command succeeds and whose Store and Cache calls complete returns OK    *)
(* with a record of status RUNNING; afterwards the Store record and the    *)
(* Cache entry of that id are that record, with the jobId it had before.   *)
(***************************************************************************)
StartRuns ==
    \A request \in Routed("start") :
        LET id == request.path.id IN
        (id \in StoreIds /\ store[id].status = AWAITING_DROPOFF)
            => \A out \in Completed(request) :
                    /\ out.resp.statusCode = OK
                    /\ out.resp.machine = <<out.db[id]>>
                    /\ out.db[id] = [store[id] EXCEPT !.status = RUNNING]
                    /\ out.cache[id] = <<out.db[id]>>

\* A start has just returned OK and the machine is RUNNING in Store and Cache.
StartSucceeded ==
    /\ last.route = "start"
    /\ last.statusCode = OK
    /\ Called(last, DeviceSites)
    /\ \E m \in StoreIds : store[m].status = RUNNING /\ cache[m] = <<store[m]>>

(***************************************************************************)
(* C7: a StartMachine whose start-cycle command is the call that fails,    *)
(* after which the Store shows the machine in ERROR, returns               *)
(* HARDWARE_ERROR carrying that record; afterwards the Store status is     *)
(* ERROR and the Cache entry of that id is that record.                    *)
(***************************************************************************)
StartHardwareError ==
    \A request \in Routed("start") : \A out \in Outcomes(request) :
        LET id == request.path.id IN
        (/\ id \in StoreIds
         /\ out.faults = <<"start165">>
         /\ out.db[id].status = ERROR)
            => /\ out.resp.statusCode = HARDWARE_ERROR
               /\ out.resp.machine = <<out.db[id]>>
               /\ out.cache[id] = <<out.db[id]>>
               /\ store[id].status = AWAITING_DROPOFF

\* A start has just returned HARDWARE_ERROR after its start-cycle command
\* failed, and the ERROR record is in Store and Cache.
StartFaulted ==
    /\ last.route = "start"
    /\ last.statusCode = HARDWARE_ERROR
    /\ last.faults = <<"start165">>
    /\ \E m \in StoreIds : store[m].status = ERROR /\ cache[m] = <<store[m]>>

(***************************************************************************)
(* C8: a GetMachine on an id that has a Cache entry makes no Store call    *)
(* and leaves Store and Cache as they were; when its Cache read completes  *)
(* it returns OK with the cached record, whatever the Store holds.         *)
(***************************************************************************)
GetCacheHit ==
    \A request \in Routed("get") :
        LET id == request.path.id IN
        cache[id] # undefined
            => /\ \A out \in Outcomes(request) :
                    /\ ~Called(out, StoreSites)
                    /\ out.db = store
                    /\ out.cache = cache
               /\ \A out \in Completed(request) :
                    /\ out.resp.statusCode = OK
                    /\ out.resp.machine = cache[id]

\* A GetMachine has just been answered from the Cache alone while every
\* Cache entry differs from the Store's record.
GetServedStale ==
    /\ last.route = "get"
    /\ last.statusCode = OK
    /\ last.calls = <<"cget103">>
    /\ \E i \in StoreIds : cache[i] # undefined
    /\ \A i \in StoreIds : cache[i] # undefined => cache[i] # <<store[i]>>

(***************************************************************************)
(* C9: a GetMachine on an id without a Cache entry never changes the       *)
(* Store; when its calls complete and the Store holds the id, it returns   *)
(* OK with the Store's record and the Cache entry of the id becomes that   *)
(* record; when the Store does not hold the id, it returns NOT_FOUND with  *)
(* no record and writes no Cache entry.                                    *)
(***************************************************************************)
GetCacheMiss ==
    \A request \in Routed("get") :
        LET id == request.path.id IN
        cache[id] = undefined
            => /\ \A out \in Outcomes(request) : out.db = store
               /\ \A out \in Completed(request) :
                    IF id \in StoreIds
                    THEN /\ out.resp.statusCode = OK
                         /\ out.resp.machine = <<store[id]>>
                         /\ out.cache = [cache EXCEPT ![id] = <<store[id]>>]
                    ELSE /\ out.resp.statusCode = NOT_FOUND
                         /\ out.resp.machine = undefined
                         /\ out.cache = cache
                         /\ ~Called(out, {"put123"})

\* A GetMachine has just read a reserved machine from the Store and cached it.
GetPopulated ==
    /\ last.route = "get"
    /\ last.statusCode = OK
    /\ last.calls = <<"cget103", "get113", "put123">>
    /\ \E m \in StoreIds : store[m].status # AVAILABLE /\ cache[m] = <<store[m]>>

(***************************************************************************)
(* C10: a request whose token the Identity Gateway reports invalid, on     *)
(* any method and path, ends in UNAUTHORIZED, thrown by the token check;   *)
(* no Store, Cache or Device Gateway call is made and Store and Cache stay *)
(* as they were.                                                           *)
(***************************************************************************)
InvalidTokenUnauthorized ==
    \A request \in Requests :
        ~validateToken(request.token)
            => \A out \in Outcomes(request) :
                    /\ out.resp.kind = "throw"
                    /\ out.resp.statusCode = UNAUTHORIZED
                    /\ out.resp.machine = undefined
                    /\ out.calls = <<>>
                    /\ out.db = store
                    /\ out.cache = cache

\* A request with an invalid token has just been refused while a reserved
\* machine stands in the Store.
Refused ==
    /\ last.route = "unauthorized"
    /\ last.statusCode = UNAUTHORIZED
    /\ last.calls = <<>>
    /\ \E m \in StoreIds : store[m].status = AWAITING_DROPOFF

(***************************************************************************)
(* C11: every RequestMachine, GetMachine and StartMachine ends in a        *)
(* returned result whichever of its Store, Cache and Device Gateway calls  *)
(* fault, the re-read of the failure path of StartMachine included: the    *)
(* code is OK, NOT_FOUND, BAD_REQUEST, INTERNAL_SERVER_ERROR or            *)
(* HARDWARE_ERROR and a record is carried exactly with OK, BAD_REQUEST and *)
(* HARDWARE_ERROR.                                                         *)
(***************************************************************************)
WorkflowCodes == {OK, NOT_FOUND, BAD_REQUEST, INTERNAL_SERVER_ERROR, HARDWARE_ERROR}

PayloadCodes == {OK, BAD_REQUEST, HARDWARE_ERROR}

FaultsBecomeResults ==
    [](
        \A request \in Routed("request") \cup Routed("get") \cup Routed("start") :
            \A out \in Outcomes(request) :
                /\ out.resp.kind = "return"
                /\ out.resp.statusCode \in WorkflowCodes
                /\ out.resp.machine # undefined <=> out.resp.statusCode \in PayloadCodes
      )

\* A start has just ended in INTERNAL_SERVER_ERROR after its start-cycle
\* command failed and the re-read of the failure path failed too.
SecondaryFaultSwallowed ==
    /\ last.route = "start"
    /\ last.kind = "return"
    /\ last.statusCode = INTERNAL_SERVER_ERROR
    /\ last.faults = <<"start165", "get190">>

(***************************************************************************)
(* C12: StartMachine returns HARDWARE_ERROR only when in that invocation   *)
(* the start-cycle command was issued, it or the status update after it    *)
(* failed and the re-read showed ERROR; a fault of the initial Store read  *)
(* never leads to HARDWARE_ERROR, to a Store write or to a Cache write.    *)
(***************************************************************************)
HardwareErrorOnlyAfterCommand ==
    \A request \in Routed("start") : \A out \in Outcomes(request) :
        /\ out.resp.statusCode = HARDWARE_ERROR
              => /\ Called(out, DeviceSites)
                 /\ out.faults # <<>>
                 /\ out.faults[1] \in {"start165", "status168"}
                 /\ out.resp.machine[1].status = ERROR
        /\ (out.faults # <<>> /\ out.faults[1] = "get147")
              => /\ out.resp.statusCode # HARDWARE_ERROR
                 /\ ~Called(out, {"status193", "put195"})
                 /\ out.cache = cache

(***************************************************************************)
(* C13.  As stated: when the start-cycle command of a StartMachine fails   *)
(* and the re-read of the failure path faults or shows a status other than *)
(* ERROR, the result is INTERNAL_SERVER_ERROR without a record, the Store  *)
(* record and the Cache entry of the machine are unchanged and the machine *)
(* is still AWAITING_DROPOFF.                                              *)
(***************************************************************************)
CommandFailed(out, id) ==
    \/ out.faults = <<"start165", "get190">>
    \/ out.faults = <<"start165">> /\ out.db[id].status # ERROR

FailedStartLeavesAwaiting ==
    \A request \in Routed("start") : \A out \in Outcomes(request) :
        LET id == request.path.id IN
        (id \in StoreIds /\ CommandFailed(out, id))
            => /\ out.resp.statusCode = INTERNAL_SERVER_ERROR
               /\ out.resp.machine = undefined
               /\ out.db[id] = store[id]
               /\ out.cache[id] = cache[id]
               /\ out.db[id].status = AWAITING_DROPOFF

(***************************************************************************)
(* C13, amended: in that case the result is INTERNAL_SERVER_ERROR without  *)
(* a record, the workflow writes neither the Store nor the Cache, and when *)
(* the re-read shows a status other than ERROR the Store is unchanged and  *)
(* the machine still AWAITING_DROPOFF, so a later start is not rejected;   *)
(* when the re-read faults the Store holds the record as it was or with    *)
(* the status ERROR the hardware fault left.  A start of a machine that is *)
(* AWAITING_DROPOFF can end this way with the Store unchanged.             *)
(***************************************************************************)
FailedStartWritesNothing ==
    [](
        /\ \A request \in Routed("start") : \A out \in Outcomes(request) :
            LET id == request.path.id IN
            (id \in StoreIds /\ CommandFailed(out, id))
                => /\ out.resp.statusCode = INTERNAL_SERVER_ERROR
                   /\ out.resp.machine = undefined
                   /\ out.cache = cache
                   /\ ~Called(out, {"status168", "status193", "put175", "put195"})
                   /\ out.faults = <<"start165">>
                         => /\ out.db = store
                            /\ out.db[id].status = AWAITING_DROPOFF
                            /\ ~startRejected(out.db[id])
                   /\ out.faults = <<"start165", "get190">>
                         => out.db \in {store, [store EXCEPT ![id].status = ERROR]}
        /\ \A request \in Routed("start") :
              LET id == request.path.id IN
              (id \in StoreIds /\ store[id].status = AWAITING_DROPOFF)
                  => \E out \in Outcomes(request) :
                        /\ out.faults = <<"start165">>
                        /\ out.resp.statusCode = INTERNAL_SERVER_ERROR
                        /\ out.db = store
      )

\* A start has just ended in INTERNAL_SERVER_ERROR after its start-cycle
\* command failed and the re-read showed the machine still AWAITING_DROPOFF.
StartFailedTransiently ==
    /\ last.route = "start"
    /\ last.statusCode = INTERNAL_SERVER_ERROR
    /\ last.faults = <<"start165">>
    /\ last.calls = <<"get147", "start165", "get190">>
    /\ \E m \in StoreIds : store[m].status = AWAITING_DROPOFF

(***************************************************************************)
(* C14: when the jobId update or the re-read of a RequestMachine faults,   *)
(* after the status update was applied, the result is                      *)
(* INTERNAL_SERVER_ERROR without a record, the selected machine stays      *)
(* AWAITING_DROPOFF in the Store (with the jobId it had when the jobId     *)
(* update is the call that faulted, with the requested one when the        *)
(* re-read is), no other record changes and no Cache entry is written.     *)
(***************************************************************************)
\* The first machine in the Store's order that is AVAILABLE at the location.
FirstAvailableAt(db, locationId) ==
    LET fits == {k \in 1 .. Len(StoreOrder) :
                    /\ db[StoreOrder[k]].locationId = locationId
                    /\ db[StoreOrder[k]].status = AVAILABLE}
    IN StoreOrder[CHOOSE k \in fits : \A j \in fits : k <= j]

PartialReservationKept ==
    [](
        \A request \in Routed("request") : \A out \in Outcomes(request) :
            out.faults \in {<<"job67">>, <<"get70">>}
                => LET id == FirstAvailableAt(store, request.locationId) IN
                   /\ out.resp.statusCode = INTERNAL_SERVER_ERROR
                   /\ out.resp.machine = undefined
                   /\ out.cache = cache
                   /\ out.db[id].status = AWAITING_DROPOFF
                   /\ out.db[id].jobId =
                         (IF out.faults = <<"job67">> THEN store[id].jobId ELSE request.jobId)
                   /\ \A m \in StoreIds \ {id} : out.db[m] = store[m]
      )

\* A reservation has just ended in INTERNAL_SERVER_ERROR at its jobId update
\* and left a machine AWAITING_DROPOFF without a job and without a Cache entry.
ReservationHalfApplied ==
    /\ last.route = "request"
    /\ last.statusCode = INTERNAL_SERVER_ERROR
    /\ last.faults = <<"job67">>
    /\ \E m \in StoreIds :
        /\ store[m].status = AWAITING_DROPOFF
        /\ store[m].jobId = NoJob
        /\ cache[m] = undefined

(***************************************************************************)
(* C16: with requests handled one after another, a reservation that        *)
(* returns OK returns a machine that was AVAILABLE just before and is not  *)
(* afterwards, no request makes a machine AVAILABLE that was not, and a    *)
(* reservation for a location all of whose machines have left AVAILABLE    *)
(* returns NOT_FOUND whenever its listing completes: so no two             *)
(* reservations that return OK return the same machine.                    *)
(***************************************************************************)
AssignedAtMostOnce ==
    [](
        /\ \A request \in Requests : \A out \in Outcomes(request) :
              \A m \in StoreIds :
                  store[m].status # AVAILABLE => out.db[m].status # AVAILABLE
        /\ \A request \in Routed("request") : \A out \in Outcomes(request) :
              /\ out.resp.statusCode = OK
                    => LET id == out.resp.machine[1].machineId IN
                       /\ store[id].status = AVAILABLE
                       /\ out.db[id].status # AVAILABLE
              /\ (~HasAvailable(store, request.locationId) /\ out.faults = <<>>)
                    => out.resp.statusCode = NOT_FOUND
      )

\* Two reservations have returned OK, the second just now: both machines
\* hold a job and neither is AVAILABLE.
BothMachinesAssigned ==
    /\ last.route = "request"
    /\ last.statusCode = OK
    /\ \A m \in StoreIds : store[m].status # AVAILABLE /\ store[m].jobId \in JobIds

(***************************************************************************)
(* C17: a RequestMachine changes the Store record and the Cache entry of   *)
(* no machine but the first one, in the order the Store lists the          *)
(* location's machines, that is AVAILABLE; every machine listed before it  *)
(* is not AVAILABLE, and a reservation that returns OK returns that        *)
(* machine.                                                                *)
(***************************************************************************)
ListedBefore(m, n) ==
    \E j, k \in 1 .. Len(StoreOrder) : j < k /\ StoreOrder[j] = m /\ StoreOrder[k] = n

FirstAvailableReserved ==
    [](
        \A request \in Routed("request") : \A out \in Outcomes(request) :
            /\ \A i \in PathIds \ StoreIds : out.cache[i] = cache[i]
            /\ \A n \in StoreIds :
                  (out.db[n] # store[n] \/ out.cache[n] # cache[n]
                      \/ out.resp.machine = <<out.db[n]>>)
                     => /\ store[n].status = AVAILABLE
                        /\ store[n].locationId = request.locationId
                        /\ \A m \in StoreIds :
                              (ListedBefore(m, n) /\ store[m].locationId = request.locationId)
                                 => /\ store[m].status # AVAILABLE
                                    /\ out.db[m] = store[m]
                                    /\ out.cache[m] = cache[m]
            /\ out.resp.statusCode = OK
                  => out.resp.machine[1].machineId = FirstAvailableAt(store, request.locationId)
      )

\* A reservation has just returned OK for the second machine of the listing:
\* the first one is RUNNING, so it was reserved and started before.
SecondMachineReserved ==
    /\ last.route = "request"
    /\ last.statusCode = OK
    /\ store[StoreOrder[1]].status = RUNNING
    /\ store[StoreOrder[2]].status = AWAITING_DROPOFF
    /\ cache[StoreOrder[2]] = <<store[StoreOrder[2]]>>

(***************************************************************************)
(* C15: when invocations interleave, two RequestMachine calls for          *)
(* different jobs can both return OK for the same machine.  Whenever they  *)
(* have, one of the two wrote the machine's jobId last, the Store holds    *)
(* the job of that one, and the job of the other one does not hold the     *)
(* machine although its reservation returned OK.                           *)
(***************************************************************************)
Reserved(p) == task[p].op = "request" /\ task[p].pc = "done" /\ task[p].code = OK

LastWriterWins ==
    \A p, q \in Procs :
        (p # q /\ Reserved(p) /\ Reserved(q) /\ task[p].id = task[q].id)
            => LET m == task[p].id
                   w == jobWriter[m]
               IN /\ task[p].job # task[q].job
                  /\ w \in {p, q}
                  /\ store[m].jobId = task[w].job
                  /\ \A l \in {p, q} \ {w} : store[m].jobId # task[l].job

\* Both tasks have reserved the same machine, each for its own job; the
\* machine is AWAITING_DROPOFF for the job of q and no machine holds p's.
ReservationLost ==
    \E p, q \in Procs :
        /\ p # q /\ Reserved(p) /\ Reserved(q)
        /\ task[p].id = task[q].id
        /\ task[p].job # task[q].job
        /\ jobWriter[task[p].id] = q
        /\ store[task[p].id].status = AWAITING_DROPOFF
        /\ store[task[p].id].jobId = task[q].job
        /\ \A n \in StoreIds : store[n].jobId # task[p].job

(***************************************************************************)
(* C18: when invocations interleave, no step overwrites a Store status of  *)
(* RUNNING or ERROR with AWAITING_DROPOFF.                                 *)
(***************************************************************************)
StartedNeverReserved ==
    [][\A m \in StoreIds :
          store[m].status \in {RUNNING, ERROR} => store'[m].status # AWAITING_DROPOFF]_vars

(***************************************************************************)
(* C19: when invocations interleave, once every invocation has returned    *)
(* every Cache entry equals the Store's record of its id.                  *)
(***************************************************************************)
QuiescentCacheCurrent ==
    (\A p \in Procs : task[p].pc = "done")
        => \A i \in StoreIds : cache[i] # undefined => cache[i] = <<store[i]>>

(***************************************************************************)
(* C20: from a Store in which no machine is RUNNING, a machine is RUNNING  *)
(* in the Store only if a start-cycle command for it has succeeded before, *)
(* and a task comes to issue the start-cycle command for a machine only by *)
(* a Store read of its invocation that shows the machine AWAITING_DROPOFF. *)
(***************************************************************************)
RunningOnlyStarted ==
    /\ [](\A m \in StoreIds : store[m].status = RUNNING => m \in started)
    /\ [][\A p \in Procs :
             (task'[p].pc = "start165" /\ task[p].pc # "start165")
                => /\ task[p].pc = "get147"
                   /\ store[task[p].id].status = AWAITING_DROPOFF]_vars

\* A StartMachine has returned OK: the machine is RUNNING, and a start-cycle
\* command for it succeeded; the other machine was never started.
CycleStarted ==
    \E p \in Procs : \E m \in StoreIds :
        /\ task[p].op = "start" /\ task[p].pc = "done" /\ task[p].code = OK
        /\ store[m].status = RUNNING
        /\ started = {m}

====
